---------------------------- MODULE Spec2Model ----------------------------
(***************************************************************************)
(* A model of biomedical_filtering.py: load_data, filter_signal and the    *)
(* pipeline of main.                                                       *)
(*                                                                         *)
(* Numbers.  The script computes with IEEE-754 binary64 values (numpy      *)
(* float64 and Python float).  A finite binary64 value is modelled as a    *)
(* sign and a magnitude; the magnitude is an exact fixed-point number      *)
(* with 15 * FracLimbs fractional bits, held as a sequence of base-2^15    *)
(* limbs, least significant first (TLC's integers have 32 bits).  Every    *)
(* arithmetic operation computes the exact result and rounds it to         *)
(* Precision significant bits, ties to even, as the hardware does.  The    *)
(* fixed-point form holds every binary64 value of magnitude at least       *)
(* 2^(Precision + 1 - 15 * FracLimbs) exactly; the values of the model     *)
(* stay above that.                                                        *)
(*                                                                         *)
(* Style.  A value used more than once is passed to an operator as a       *)
(* parameter rather than named in a LET.                                   *)
(***************************************************************************)
EXTENDS Integers, Sequences, FiniteSets, TLC

\* ------------------------------------------------------------------------
\* Natural numbers of any size: sequences of limbs, least significant
\* first, without high zero limbs; <<>> is 0.

Base == 2^15

FracLimbs == 5

Precision == 53

RECURSIVE BigNorm(_)
BigNorm(a) ==
    IF a = <<>> THEN <<>>
    ELSE IF a[Len(a)] = 0 THEN BigNorm(SubSeq(a, 1, Len(a) - 1))
    ELSE a

RECURSIVE BigFromInt(_)
BigFromInt(n) ==
    IF n = 0 THEN <<>> ELSE <<n % Base>> \o BigFromInt(n \div Base)

RECURSIVE BigToInt(_)
BigToInt(a) ==
    IF a = <<>> THEN 0 ELSE a[1] + Base * BigToInt(Tail(a))

Limb(a, i) == IF i <= Len(a) THEN a[i] ELSE 0

RECURSIVE CmpFrom(_, _, _)
CmpFrom(a, b, i) ==
    IF i = 0 THEN 0
    ELSE IF a[i] < b[i] THEN -1
    ELSE IF a[i] > b[i] THEN 1
    ELSE CmpFrom(a, b, i - 1)

\* -1, 0 or 1 as a < b, a = b or a > b
BigCmp(a, b) ==
    IF Len(a) < Len(b) THEN -1
    ELSE IF Len(a) > Len(b) THEN 1
    ELSE CmpFrom(a, b, Len(a))

RECURSIVE AddFrom(_, _, _, _), AddLimb(_, _, _, _)
\* the limbs from i on of a + b + carry * Base^(i-1); s is the sum at limb i
AddLimb(a, b, i, s) == <<s % Base>> \o AddFrom(a, b, i + 1, s \div Base)

AddFrom(a, b, i, carry) ==
    IF i > Len(a) /\ i > Len(b)
    THEN IF carry = 0 THEN <<>> ELSE <<carry>>
    ELSE AddLimb(a, b, i, Limb(a, i) + Limb(b, i) + carry)

BigAdd(a, b) == AddFrom(a, b, 1, 0)

RECURSIVE SubFrom(_, _, _, _), SubLimb(_, _, _, _)
SubLimb(a, b, i, d) ==
    IF d < 0 THEN <<d + Base>> \o SubFrom(a, b, i + 1, 1)
    ELSE <<d>> \o SubFrom(a, b, i + 1, 0)

SubFrom(a, b, i, borrow) ==
    IF i > Len(a) THEN <<>> ELSE SubLimb(a, b, i, a[i] - Limb(b, i) - borrow)

\* a - b, for a >= b
BigSub(a, b) == BigNorm(SubFrom(a, b, 1, 0))

RECURSIVE MulFrom(_, _, _, _), MulLimb(_, _, _, _)
MulLimb(a, k, i, p) == <<p % Base>> \o MulFrom(a, k, i + 1, p \div Base)

MulFrom(a, k, i, carry) ==
    IF i > Len(a)
    THEN IF carry = 0 THEN <<>> ELSE <<carry>>
    ELSE MulLimb(a, k, i, a[i] * k + carry)

\* a * k, for 0 <= k <= Base
BigMulSmall(a, k) == BigNorm(MulFrom(a, k, 1, 0))

Zeros(n) == [i \in 1..n |-> 0]

\* a * Base^n
BigShlLimbs(a, n) == IF a = <<>> THEN <<>> ELSE Zeros(n) \o a

RECURSIVE BigMul(_, _)
BigMul(a, b) ==
    IF b = <<>> THEN <<>>
    ELSE BigAdd(BigMulSmall(a, b[1]), BigShlLimbs(BigMul(a, Tail(b)), 1))

\* the quotient cur \div k put before the quotient hq of the higher limbs
DivDigit(cur, hq, k) == [q |-> <<cur \div k>> \o hq, r |-> cur % k]

DivLimb(limb, hi, k) == DivDigit(hi.r * Base + limb, hi.q, k)

RECURSIVE DivFrom(_, _)
DivFrom(a, k) ==
    IF a = <<>> THEN [q |-> <<>>, r |-> 0]
    ELSE DivLimb(a[1], DivFrom(Tail(a), k), k)

NormQuotient(d) == [q |-> BigNorm(d.q), r |-> d.r]

\* quotient and remainder of a by k, for 0 < k <= Base
BigDivSmall(a, k) == NormQuotient(DivFrom(a, k))

\* a * 2^n
BigShl(a, n) == BigMulSmall(BigShlLimbs(a, n \div 15), 2^(n % 15))

\* floor(a / 2^n)
BigShr(a, n) ==
    IF n \div 15 >= Len(a) THEN <<>>
    ELSE BigDivSmall(SubSeq(a, n \div 15 + 1, Len(a)), 2^(n % 15)).q

\* bit i of a, bit 0 the least significant
BigBit(a, i) == (Limb(a, i \div 15 + 1) \div 2^(i % 15)) % 2

\* whether a bit of a below bit i is set
BigLowBits(a, i) ==
    \/ \E j \in 1..(i \div 15) : Limb(a, j) # 0
    \/ Limb(a, i \div 15 + 1) % 2^(i % 15) # 0

RECURSIVE SmallBitLen(_)
SmallBitLen(n) == IF n = 0 THEN 0 ELSE 1 + SmallBitLen(n \div 2)

BigBitLen(a) ==
    IF a = <<>> THEN 0 ELSE 15 * (Len(a) - 1) + SmallBitLen(a[Len(a)])

\* the number of low zero bits of a, a > 0
RECURSIVE LowZeros(_, _)
LowZeros(a, i) == IF BigBit(a, i) = 1 THEN i ELSE LowZeros(a, i + 1)

RECURSIVE DigitFrom(_, _, _, _)
\* the largest d with acc <= d < acc + 2^(bit+1) and d * b <= cur
DigitFrom(cur, b, bit, acc) ==
    IF bit < 0 THEN acc
    ELSE IF BigCmp(BigMulSmall(b, acc + 2^bit), cur) <= 0
         THEN DigitFrom(cur, b, bit - 1, acc + 2^bit)
         ELSE DigitFrom(cur, b, bit - 1, acc)

RECURSIVE LongDivFrom(_, _, _, _, _), LongNext(_, _, _, _, _)
\* schoolbook division, one limb of a at a time from the top: q is the
\* quotient of the limbs of a above limb i, and cur is their remainder
\* with limb i put below it
LongDigit(a, b, i, q, cur, d) ==
    LongNext(a, b, i, <<d>> \o q, BigSub(cur, BigMulSmall(b, d)))

LongDivFrom(a, b, i, q, cur) ==
    IF BigCmp(cur, b) < 0 THEN LongNext(a, b, i, <<0>> \o q, cur)
    ELSE LongDigit(a, b, i, q, cur, DigitFrom(cur, b, 14, 0))

LongNext(a, b, i, q, r) ==
    IF i = 1 THEN [q |-> q, r |-> r]
    ELSE LongDivFrom(a, b, i - 1, q, BigNorm(<<a[i - 1]>> \o r))

LongDiv(a, b) ==
    IF a = <<>> THEN [q |-> <<>>, r |-> <<>>]
    ELSE LongDivFrom(a, b, Len(a), <<>>, <<a[Len(a)]>>)

\* quotient and remainder of a by b, for b > 0
BigDivMod(a, b) == NormQuotient(LongDiv(a, b))

\* ------------------------------------------------------------------------
\* binary64 values

FracBits == 15 * FracLimbs

RoundUp(q, guard, rest) ==
    IF guard /\ (rest \/ BigBit(q, 0) = 1) THEN BigAdd(q, <<1>>) ELSE q

\* x rounded to the multiple of 2^sh nearest to it, ties to even
RoundAt(x, sticky, sh) ==
    IF sh <= 0 THEN x
    ELSE BigShl(RoundUp(BigShr(x, sh),
                        BigBit(x, sh - 1) = 1,
                        sticky \/ BigLowBits(x, sh - 1)),
                sh)

\* x (in units of 2^-FracBits, with sticky telling that the exact value lies
\* strictly above x) rounded to Precision significant bits, ties to even
Round53(x, sticky) == RoundAt(x, sticky, BigBitLen(x) - Precision)

FFin(neg, m) == [k |-> "fin", neg |-> neg /\ m # <<>>, m |-> m]

FZero == FFin(FALSE, <<>>)

FNaN == [k |-> "nan", neg |-> FALSE, m |-> <<>>]

FInf(neg) == [k |-> "inf", neg |-> neg, m |-> <<>>]

Abs(n) == IF n < 0 THEN -n ELSE n

\* float(n) for an integer n, |n| < 2^31: exact
FFromInt(n) == FFin(n < 0, BigShlLimbs(BigFromInt(Abs(n)), FracLimbs))

FIsZero(x) == x.k = "fin" /\ x.m = <<>>

FNeg(x) == IF x.k = "nan" \/ FIsZero(x) THEN x ELSE [x EXCEPT !.neg = ~x.neg]

\* the exact sum of finite x and y: its sign and magnitude
ExactSum(x, y) ==
    IF x.neg = y.neg THEN [neg |-> x.neg, m |-> BigAdd(x.m, y.m)]
    ELSE IF BigCmp(x.m, y.m) >= 0 THEN [neg |-> x.neg, m |-> BigSub(x.m, y.m)]
    ELSE [neg |-> y.neg, m |-> BigSub(y.m, x.m)]

FRounded(e, sticky) == FFin(e.neg, Round53(e.m, sticky))

\* x + y
FAdd(x, y) ==
    IF x.k = "nan" \/ y.k = "nan" THEN FNaN
    ELSE IF x.k = "inf" /\ y.k = "inf"
         THEN IF x.neg = y.neg THEN x ELSE FNaN
    ELSE IF x.k = "inf" THEN x
    ELSE IF y.k = "inf" THEN y
    ELSE FRounded(ExactSum(x, y), FALSE)

\* x - y
FSub(x, y) == FAdd(x, FNeg(y))

WithSticky(d, zero) == [m |-> d.q, sticky |-> d.r # zero]

Quotient(n, d) ==
    IF Len(d) = 1 THEN WithSticky(BigDivSmall(n, d[1]), 0)
    ELSE WithSticky(BigDivMod(n, d), <<>>)

FQuotient(neg, d, lost) == FFin(neg, Round53(d.m, d.sticky \/ lost))

\* num / den, after the t low zero bits of den are divided out of both
FDivBy(neg, num, den, t) ==
    FQuotient(neg, Quotient(BigShr(num, t), BigShr(den, t)),
              BigLowBits(num, t))

\* x / y for finite x and finite y # 0: the exact quotient, rounded
FDivFinite(x, y) ==
    FDivBy(x.neg # y.neg, BigShlLimbs(x.m, FracLimbs), y.m, LowZeros(y.m, 0))

\* x / y as numpy divides float64 scalars: a zero divisor gives inf or nan
\* (and a warning), never an exception
FDivNumpy(x, y) ==
    IF x.k = "nan" \/ y.k = "nan" THEN FNaN
    ELSE IF x.k = "inf"
         THEN IF y.k = "inf" THEN FNaN ELSE FInf(x.neg # y.neg)
    ELSE IF y.k = "inf" THEN FZero
    ELSE IF FIsZero(y)
         THEN IF FIsZero(x) THEN FNaN ELSE FInf(x.neg # y.neg)
    ELSE FDivFinite(x, y)

FProduct(neg, p) ==
    FFin(neg, Round53(BigShr(p, FracBits), BigLowBits(p, FracBits)))

\* x * y for finite x and y
FMulFinite(x, y) == FProduct(x.neg # y.neg, BigMul(x.m, y.m))

FOne == FFromInt(1)

\* 0.5
FHalf == FFin(FALSE, BigShr(FOne.m, 1))

\* x < y ; false when either is nan
FLess(x, y) ==
    IF x.k = "nan" \/ y.k = "nan" THEN FALSE
    ELSE IF x.k = "inf" THEN x.neg /\ ~(y.k = "inf" /\ y.neg)
    ELSE IF y.k = "inf" THEN ~y.neg
    ELSE IF x.neg /\ ~y.neg THEN TRUE
    ELSE IF ~x.neg /\ y.neg THEN FALSE
    ELSE IF x.neg THEN BigCmp(x.m, y.m) > 0
    ELSE BigCmp(x.m, y.m) < 0

NearestInt(neg, ip, half, rest) ==
    IF half /\ (rest \/ ip % 2 = 1)
    THEN (IF neg THEN -(ip + 1) ELSE ip + 1)
    ELSE (IF neg THEN -ip ELSE ip)

\* the integer nearest to a finite x, ties to even (Python's round(x))
FRoundHalfEven(x) ==
    NearestInt(x.neg, BigToInt(BigShr(x.m, FracBits)),
               BigBit(x.m, FracBits - 1) = 1, BigLowBits(x.m, FracBits - 1))

\* ------------------------------------------------------------------------
\* Text.  A string is a sequence of one-character strings.

DigitChars == <<"0", "1", "2", "3", "4", "5", "6", "7", "8", "9">>

IsDigit(c) == \E d \in 1..10 : DigitChars[d] = c

DigitVal(c) == (CHOOSE d \in 1..10 : DigitChars[d] = c) - 1

IsDigits(s) == Len(s) > 0 /\ \A i \in 1..Len(s) : IsDigit(s[i])

RECURSIVE ParseNat(_)
ParseNat(s) ==
    IF s = <<>> THEN 0
    ELSE 10 * ParseNat(SubSeq(s, 1, Len(s) - 1)) + DigitVal(s[Len(s)])

\* str.count(ch)
Count(s, ch) == Cardinality({i \in 1..Len(s) : s[i] = ch})

\* str.replace(ch, "")
Remove(s, ch) == SelectSeq(s, LAMBDA c : c # ch)

\* str.endswith(suffix)
EndsWith(s, suffix) ==
    /\ Len(s) >= Len(suffix)
    /\ SubSeq(s, Len(s) - Len(suffix) + 1, Len(s)) = suffix

\* the position of the first ch in s, or 0
FirstIndex(s, ch) ==
    IF \E i \in 1..Len(s) : s[i] = ch
    THEN CHOOSE i \in 1..Len(s) : s[i] = ch /\ \A j \in 1..(i - 1) : s[j] # ch
    ELSE 0

RECURSIVE Split(_, _), SplitAt(_, _, _)
SplitAt(s, ch, i) ==
    IF i = 0 THEN <<s>>
    ELSE <<SubSeq(s, 1, i - 1)>> \o Split(SubSeq(s, i + 1, Len(s)), ch)

\* str.split(ch)
Split(s, ch) == SplitAt(s, ch, FirstIndex(s, ch))

UpperChars == <<"A", "B", "C", "D", "E", "F", "G", "H", "I", "J", "K", "L", "M",
                "N", "O", "P", "Q", "R", "S", "T", "U", "V", "W", "X", "Y", "Z">>

LowerChars == <<"a", "b", "c", "d", "e", "f", "g", "h", "i", "j", "k", "l", "m",
                "n", "o", "p", "q", "r", "s", "t", "u", "v", "w", "x", "y", "z">>

\* str.lower()
Lower(s) ==
    [i \in 1..Len(s) |->
        IF \E u \in 1..26 : UpperChars[u] = s[i]
        THEN LowerChars[CHOOSE u \in 1..26 : UpperChars[u] = s[i]]
        ELSE s[i]]

RECURSIVE LStrip(_)
LStrip(s) == IF s # <<>> /\ s[1] = " " THEN LStrip(Tail(s)) ELSE s

RECURSIVE RStrip(_)
RStrip(s) ==
    IF s # <<>> /\ s[Len(s)] = " " THEN RStrip(SubSeq(s, 1, Len(s) - 1)) ELSE s

\* str.strip()
Strip(s) == RStrip(LStrip(s))

\* no exception
None == "None"

\* a name not bound, and a name bound to v
Nothing == <<>>

Just(v) == <<v>>

\* ------------------------------------------------------------------------
\* load_data.  The cells of the tables of this model are times written as
\* [hh:]mm:ss[.fff], with or without quotes, and signals written as
\* [-]digits[.digits] with up to three decimals; every other cell is text
\* that neither pd.to_timedelta nor pd.to_numeric reads as a value.

ErrFileType == "ValueError: Unsupported file type. Use .csv or .xlsx only."

ErrNoColumns == "EmptyDataError: No columns to parse from file"

ErrLengthMismatch == "ValueError: Length mismatch"

ErrTimedelta == "ValueError: unable to parse timedelta"

NanText == <<"n", "a", "n">>

\* astype(str) of a cell: a missing cell reads 'nan'
AsStr(cell) == IF cell = <<>> THEN NanText ELSE cell

\* line 42: the quotes removed
Unquote(s) == Remove(s, "'")

\* line 43: a minutes:seconds time gets its hours
WithHours(x) == IF Count(x, ":") = 1 THEN <<"0", "0", ":">> \o x ELSE x

DecimalOf(s, parts) ==
    IF Len(parts) = 1 /\ IsDigits(s) THEN 1000 * ParseNat(s)
    ELSE IF /\ Len(parts) = 2
            /\ IsDigits(parts[1])
            /\ IsDigits(parts[2])
            /\ Len(parts[2]) <= 3
         THEN 1000 * ParseNat(parts[1])
              + ParseNat(parts[2]) * 10^(3 - Len(parts[2]))
    ELSE -1

\* digits, or digits "." digits: the value in thousandths, or -1
ParseDecimal(s) == DecimalOf(s, Split(s, "."))

NotTimedelta == [ok |-> FALSE, nat |-> FALSE, ms |-> 0]

TimedeltaAt(hours, minutes, ms) ==
    IF ms < 0 THEN NotTimedelta
    ELSE [ok |-> TRUE, nat |-> FALSE, ms |-> (hours * 60 + minutes) * 60000 + ms]

TimedeltaOf(f) ==
    IF Len(f) = 3 /\ IsDigits(f[1]) /\ IsDigits(f[2])
    THEN TimedeltaAt(ParseNat(f[1]), ParseNat(f[2]), ParseDecimal(f[3]))
    ELSE NotTimedelta

\* pd.to_timedelta of an hh:mm:ss[.fff] string: [ok, nat, ms], nat for 'nan'
\* (NaT), ms the duration in milliseconds
ToTimedelta(s) ==
    IF s = NanText THEN [ok |-> TRUE, nat |-> TRUE, ms |-> 0]
    ELSE TimedeltaOf(Split(s, ":"))

\* .dt.total_seconds(): the nanoseconds (an int64) divided by 10^9 in float64
TotalSeconds(td) ==
    IF td.nat THEN FNaN
    ELSE FDivNumpy(FFin(FALSE,
                        BigShlLimbs(BigMulSmall(BigMulSmall(BigFromInt(td.ms),
                                                            1000), 1000),
                                    FracLimbs)),
                   FFromInt(10^9))

NumNaN == [nan |-> TRUE, neg |-> FALSE, milli |-> 0]

NumericOf(neg, v) ==
    IF v < 0 THEN NumNaN ELSE [nan |-> FALSE, neg |-> neg /\ v # 0, milli |-> v]

\* pd.to_numeric(errors='coerce') of a cell: [nan, neg, milli], the value in
\* thousandths; a cell that is no number (or is missing) becomes NaN
ToNumeric(cell) ==
    IF cell # <<>> /\ cell[1] = "-"
    THEN NumericOf(TRUE, ParseDecimal(Tail(cell)))
    ELSE NumericOf(FALSE, ParseDecimal(cell))

\* lines 31-36: the reader, by the path's ending; skiprows=2 drops two lines,
\* the next line names the columns and the rest are the rows
ReadTable(file_path, content) ==
    IF ~(EndsWith(file_path, <<".", "c", "s", "v">>)
         \/ EndsWith(file_path, <<".", "x", "l", "s", "x">>))
    THEN [err |-> ErrFileType, ncols |-> 0, rows |-> <<>>]
    ELSE IF Len(content) <= 2
    THEN [err |-> ErrNoColumns, ncols |-> 0, rows |-> <<>>]
    ELSE [err |-> None, ncols |-> Len(content[3]),
          rows |-> SubSeq(content, 4, Len(content))]

\* lines 42-43: the Time column as text, cleaned
CleanTimes(rows) ==
    [i \in 1..Len(rows) |-> WithHours(Unquote(AsStr(rows[i][1])))]

\* lines 46 and 49: a row of the frame is [idx, Time, Signal, Time_sec], idx
\* its label (the row's place in the file)
Frame(rows, times) ==
    [i \in 1..Len(rows) |->
        [idx      |-> i - 1,
         Time     |-> times[i],
         Signal   |-> ToNumeric(rows[i][2]),
         Time_sec |-> TotalSeconds(ToTimedelta(times[i]))]]

\* a dropna that drops nothing: what DropNa is compared with
KeepAll(rows) == rows

\* line 50: dropna(subset=['Signal']) keeps the rows with a Signal, in
\* order, each under its own index label
DropNa(rows) == SelectSeq(rows, LAMBDA r : ~r.Signal.nan)

\* lines 46-52
LoadFrame(rows, times) ==
    IF \E i \in 1..Len(times) : ~ToTimedelta(times[i]).ok
    THEN [err |-> ErrTimedelta, df |-> <<>>]
    ELSE [err |-> None, df |-> DropNa(Frame(rows, times))]

\* lines 39-52
LoadTable(t) ==
    IF t.err # None THEN [err |-> t.err, df |-> <<>>]
    ELSE IF t.ncols # 2 THEN [err |-> ErrLengthMismatch, df |-> <<>>]
    ELSE LoadFrame(t.rows, CleanTimes(t.rows))

\* load_data(file_path): [err, df]
LoadData(file_path, content) == LoadTable(ReadTable(file_path, content))

\* ------------------------------------------------------------------------
\* main, lines 113-114: the sampling frequency

ErrNaNToInt == "ValueError: cannot convert float NaN to integer"

ErrInfToInt == "OverflowError: cannot convert float infinity to integer"

\* df['Time_sec']
TimeColumn(frame) == [i \in 1..Len(frame) |-> frame[i].Time_sec]

\* np.diff
Diff(t) == [i \in 1..(Len(t) - 1) |-> FSub(t[i + 1], t[i])]

RECURSIVE SumSeq(_, _, _, _)
\* acc + a[from] + ... + a[to], added from the left
SumSeq(a, from, to, acc) ==
    IF from > to THEN acc ELSE SumSeq(a, from + 1, to, FAdd(acc, a[from]))

RECURSIVE Lane(_, _, _)
\* a[j] + a[8 + j] + ... + a[8 * b + j]
Lane(a, j, b) == IF b = 0 THEN a[j] ELSE FAdd(Lane(a, j, b - 1), a[8 * b + j])

\* the sums of the neighbours of an even number of values
Pairs(l) == [i \in 1..(Len(l) \div 2) |-> FAdd(l[2 * i - 1], l[2 * i])]

RECURSIVE TreeSum(_)
\* ((l1 + l2) + (l3 + l4)) + ((l5 + l6) + (l7 + l8))
TreeSum(l) == IF Len(l) = 1 THEN l[1] ELSE TreeSum(Pairs(l))

\* numpy's sum of a float64 array of up to 128 elements: from the left below
\* 8 elements, else eight running sums over the blocks of 8, added as a
\* tree, and the rest added from the left
PairwiseSum(a) ==
    IF Len(a) < 8 THEN SumSeq(a, 1, Len(a), FZero)
    ELSE SumSeq(a, 8 * (Len(a) \div 8) + 1, Len(a),
                TreeSum([j \in 1..8 |-> Lane(a, j, Len(a) \div 8 - 1)]))

\* np.mean: the sum divided by the count; nan for no elements
Mean(a) == FDivNumpy(PairwiseSum(a), FFromInt(Len(a)))

\* round(x) of a numpy float64: an int, or an exception for nan and inf
PyRound(x) ==
    IF x.k = "nan" THEN [err |-> ErrNaNToInt, val |-> 0]
    ELSE IF x.k = "inf" THEN [err |-> ErrInfToInt, val |-> 0]
    ELSE [err |-> None, val |-> FRoundHalfEven(x)]

\* fs = round(1 / np.mean(np.diff(df['Time_sec']))): [err, val]
EstimateFs(frame) == PyRound(FDivNumpy(FOne, Mean(Diff(TimeColumn(frame)))))

\* ------------------------------------------------------------------------
\* filter_signal

ErrSignalType == "ValueError: Unsupported signal type. Choose 'ecg' or 'eeg'."

ErrFilterRange == "ValueError: Invalid filter range."

ErrZeroDivision == "ZeroDivisionError: float division by zero"

ErrPadlen == "ValueError: The length of the input vector x must be greater than padlen"

Ecg == <<"e", "c", "g">>

Eeg == <<"e", "e", "g">>

DefaultOrder == 4

\* a lookup that ignores case: what IsSupported is compared with
IsSupportedAnyCase(signal_type) == Lower(signal_type) \in {Ecg, Eeg}

\* lines 72-79: the band of a signal type, or no band
IsSupported(signal_type) == signal_type \in {Ecg, Eeg}

Lowcut(signal_type) == IF signal_type = Ecg THEN FHalf ELSE FOne

Highcut(signal_type) == IF signal_type = Ecg THEN FFromInt(45) ELSE FFromInt(30)

\* line 70
Nyq(fs) == FMulFinite(FHalf, FFromInt(fs))

\* a check without the upper bound: what ValidRange is compared with
ValidRangeUnbounded(low, high) == FLess(FZero, low) /\ FLess(low, high)

\* line 84
ValidRange(low, high) ==
    FLess(FZero, low) /\ FLess(low, high) /\ FLess(high, FOne)

\* lines 84-87: the check of the band, and butter's coefficients (if any),
\* held as what they were designed from and their number
Bandpass(order, low, high) ==
    IF ~ValidRange(low, high) THEN [err |-> ErrFilterRange, coeffs |-> Nothing]
    ELSE [err |-> None,
          coeffs |-> Just([order |-> order, low |-> low, high |-> high,
                           ntaps |-> 2 * order + 1])]

\* lines 81-82: Python's float division raises for a divisor of 0
Normalize(lowcut, highcut, nyq, order) ==
    IF FIsZero(nyq) THEN [err |-> ErrZeroDivision, coeffs |-> Nothing]
    ELSE Bandpass(order, FDivFinite(lowcut, nyq), FDivFinite(highcut, nyq))

\* lines 70-87, up to and with the call of butter: [err, coeffs]
Design(fs, signal_type, order) ==
    IF ~IsSupported(signal_type) THEN [err |-> ErrSignalType, coeffs |-> Nothing]
    ELSE Normalize(Lowcut(signal_type), Highcut(signal_type), Nyq(fs), order)

\* scipy's default padlen: 3 * max(len(a), len(b))
Padlen(c) == 3 * c.ntaps

\* a filter that returns only the values clear of the edges: what FiltFilt
\* is compared with
FiltFiltInner(c, data) ==
    IF Len(data) <= Padlen(c) THEN [err |-> ErrPadlen, out |-> Nothing]
    ELSE [err |-> None,
          out |-> Just([i \in 1..(Len(data) - Padlen(c)) |-> <<"y", i>>])]

\* line 88, filtfilt(b, a, data): [err, out]; a value of the output for each
\* value of the input, held as its place in the output
FiltFilt(c, data) ==
    IF Len(data) <= Padlen(c) THEN [err |-> ErrPadlen, out |-> Nothing]
    ELSE [err |-> None, out |-> Just([i \in 1..Len(data) |-> <<"y", i>>])]

Filtered(c, f) == [err |-> f.err, coeffs |-> c, out |-> f.out]

Designed(d, data) ==
    IF d.err # None THEN [err |-> d.err, coeffs |-> Nothing, out |-> Nothing]
    ELSE Filtered(d.coeffs, FiltFilt(d.coeffs[1], data))

\* filter_signal(data, fs, signal_type, order): [err, coeffs, out]
FilterSignal(data, fs, signal_type, order) ==
    Designed(Design(fs, signal_type, order), data)

\* ------------------------------------------------------------------------
\* The state: where main (or a call of filter_signal) stands, what it was
\* given and what it holds.

VARIABLES
    pc,           \* the last stage passed, or how the run ended
    input,        \* what the run was given
    signal_type,  \* main's signal_type
    df,           \* main's df
    fs,           \* main's fs
    coeffs,       \* butter's result
    filtered,     \* filtfilt's result
    figure,       \* what was plotted
    printed,      \* the lines printed
    saved,        \* the rows of filtered_output.csv
    err           \* the exception that left main (or filter_signal)

vars == <<pc, input, signal_type, df, fs, coeffs, filtered, figure, printed,
          saved, err>>

MsgNotFound == "File not found."

MsgFs == "Estimated sampling frequency"

MsgSaved == "Filtered signal saved to: filtered_output.csv"

ErrPlotShape == "ValueError: x and y must have same first dimension"

ErrColumnLength == "ValueError: Length of values does not match length of index"

\* an exception caught and printed: what Raise is compared with
Swallow(e) ==
    /\ pc' = "Returned"
    /\ err' = err
    /\ printed' = Append(printed, e)

\* an exception leaves main: nothing catches it, nothing is printed for it
Raise(e) ==
    /\ pc' = "Raised"
    /\ err' = e
    /\ printed' = printed

\* lines 102-107: the prompts, and the early return for a missing file
ReadInputs ==
    /\ pc = "Start"
    /\ signal_type' = Just(Lower(Strip(input.signal_raw)))
    /\ IF input.exists
       THEN pc' = "Ready" /\ printed' = printed
       ELSE pc' = "Returned" /\ printed' = Append(printed, MsgNotFound)
    /\ UNCHANGED <<input, df, fs, coeffs, filtered, figure, saved, err>>

LoadReturns(r) ==
    IF r.err # None
    THEN Raise(r.err) /\ df' = df
    ELSE pc' = "Loaded" /\ df' = Just(r.df) /\ UNCHANGED <<err, printed>>

\* line 110
Load ==
    /\ pc = "Ready"
    /\ LoadReturns(LoadData(input.file_path, input.content))
    /\ UNCHANGED <<input, signal_type, fs, coeffs, filtered, figure, saved>>

RoundReturns(r) ==
    IF r.err # None
    THEN Raise(r.err) /\ fs' = fs
    ELSE /\ pc' = "RateEstimated"
         /\ fs' = Just(r.val)
         /\ printed' = Append(printed, MsgFs)
         /\ err' = err

\* lines 113-115
Estimate ==
    /\ pc = "Loaded"
    /\ RoundReturns(EstimateFs(df[1]))
    /\ UNCHANGED <<input, signal_type, df, coeffs, filtered, figure, saved>>

\* the Signal column, as filter_signal gets it
SignalColumn(frame) == [i \in 1..Len(frame) |-> frame[i].Signal]

ButterReturns(r) ==
    IF r.err # None
    THEN Raise(r.err) /\ coeffs' = coeffs
    ELSE pc' = "FilterDesigned" /\ coeffs' = r.coeffs /\ UNCHANGED <<err, printed>>

\* line 118, filter_signal as far as butter
DesignFilter ==
    /\ pc = "RateEstimated"
    /\ ButterReturns(Design(fs[1], signal_type[1], DefaultOrder))
    /\ UNCHANGED <<input, signal_type, df, fs, filtered, figure, saved>>

FiltFiltReturns(r) ==
    IF r.err # None
    THEN Raise(r.err) /\ filtered' = filtered
    ELSE pc' = "Applied" /\ filtered' = r.out /\ UNCHANGED <<err, printed>>

\* line 118, the rest of filter_signal: filtfilt and the return
ApplyFilter ==
    /\ pc = "FilterDesigned"
    /\ FiltFiltReturns(FiltFilt(coeffs[1], SignalColumn(df[1])))
    /\ UNCHANGED <<input, signal_type, df, fs, coeffs, figure, saved>>

\* lines 121-137: both series against Time_sec
Plot ==
    /\ pc = "Applied"
    /\ IF Len(filtered[1]) # Len(df[1])
       THEN Raise(ErrPlotShape) /\ figure' = figure
       ELSE /\ pc' = "Plotted"
            /\ figure' = Just([original |-> Len(df[1]),
                               filtered |-> Len(filtered[1])])
            /\ UNCHANGED <<err, printed>>
    /\ UNCHANGED <<input, signal_type, df, fs, coeffs, filtered, saved>>

\* line 142: the frame with the column Filtered_Signal, set by position
WithFiltered(frame, column) ==
    [i \in 1..Len(frame) |->
        [idx             |-> frame[i].idx,
         Time            |-> frame[i].Time,
         Signal          |-> frame[i].Signal,
         Time_sec        |-> frame[i].Time_sec,
         Filtered_Signal |-> column[i]]]

\* line 144: to_csv(index=False) writes the columns, not the labels
ToCsv(frame) ==
    [i \in 1..Len(frame) |->
        [Time            |-> frame[i].Time,
         Signal          |-> frame[i].Signal,
         Time_sec        |-> frame[i].Time_sec,
         Filtered_Signal |-> frame[i].Filtered_Signal]]

\* lines 140-145
Save ==
    /\ pc = "Plotted"
    /\ IF Lower(Strip(input.save_raw)) # <<"y">>
       THEN pc' = "Done" /\ UNCHANGED <<df, saved, err, printed>>
       ELSE IF Len(filtered[1]) # Len(df[1])
       THEN Raise(ErrColumnLength) /\ UNCHANGED <<df, saved>>
       ELSE /\ pc' = "Done"
            /\ df' = Just(WithFiltered(df[1], filtered[1]))
            /\ saved' = Just(ToCsv(WithFiltered(df[1], filtered[1])))
            /\ printed' = Append(printed, MsgSaved)
            /\ err' = err
    /\ UNCHANGED <<input, signal_type, fs, coeffs, filtered, figure>>

FilterSignalReturns(r) ==
    /\ coeffs' = r.coeffs
    /\ filtered' = r.out
    /\ IF r.err # None
       THEN Raise(r.err)
       ELSE pc' = "Returned" /\ UNCHANGED <<err, printed>>

\* a call of filter_signal by itself
CallFilterSignal ==
    /\ pc = "Call"
    /\ FilterSignalReturns(FilterSignal(input.data, input.fs,
                                        input.signal_type, input.order))
    /\ UNCHANGED <<input, signal_type, df, fs, figure, saved>>


\* ------------------------------------------------------------------------
\* What a run is given.

MaxRows == 29

MaxSmallRows == 2

MaxFs == 100

MaxOrder == 4

Two(n) == <<DigitChars[((n \div 10) % 10) + 1], DigitChars[(n % 10) + 1]>>

Three(n) == <<DigitChars[((n \div 100) % 10) + 1]>> \o Two(n)

\* a time of ms milliseconds as the recorder writes it: mm:ss.fff, the same
\* behind a quote, or hh:mm:ss.fff
MinSec(ms) ==
    Two((ms \div 60000) % 60) \o <<":">> \o Two((ms \div 1000) % 60)
    \o <<".">> \o Three(ms % 1000)

FormatTime(ms, style) ==
    IF style = "mmss" THEN MinSec(ms)
    ELSE IF style = "quoted" THEN <<"'">> \o MinSec(ms)
    ELSE Two(ms \div 3600000) \o <<":">> \o MinSec(ms)

Preamble == << <<"d", "e", "v">> >>

Header == << <<"t">>, <<"s">> >>

\* a recording of n rows, the first at start ms and each step ms after the
\* one before (before it, for a step below 0); the rows in bad hold no number
Recording(n, start, step, style, bad) ==
    <<Preamble, Preamble, Header>> \o
    [i \in 1..n |->
        << FormatTime(IF step >= 0 THEN start + (i - 1) * step
                      ELSE start + (n - i) * (-step), style),
           IF i \in bad THEN <<"a", "b", "c">> ELSE Two(i) \o <<".", "5">> >>]

Starts == {0, 100, 1000}

StyleOf(start) ==
    IF start = 0 THEN "mmss" ELSE IF start = 100 THEN "quoted" ELSE "hhmmss"

Steps == {10, 8, 400, 2000, 3000, 0, -1000}

\* short recordings of every spacing, and recordings about as long as the
\* filter needs, of the spacings a band fits
Recordings ==
    {Recording(n, start, step, StyleOf(start), bad) :
        n \in {1, 2, 3, 9}, start \in Starts, step \in Steps, bad \in {{}, {2}}}
    \cup
    {Recording(n, start, step, StyleOf(start), bad) :
        n \in (MaxRows - 2)..MaxRows, start \in {0, 100}, step \in {10, 8},
        bad \in {{}, {2}}}

SmallTimes == {FormatTime(0, "mmss"), FormatTime(1500, "quoted"),
               <<"0", "0", ":", "0", "0", ":", "0", "2">>, <<"x">>}

SmallSignals == {<<"1", ".", "5">>, <<"a", "b", "c">>, <<>>}

SeqsUpTo(S, n) == UNION {[1..k -> S] : k \in 0..n}

Table(rows) ==
    <<Preamble, Preamble, Header>> \o
    [i \in 1..Len(rows) |-> <<rows[i][1], rows[i][2]>>]

SmallTables ==
    {Table(rows) : rows \in SeqsUpTo(SmallTimes \X SmallSignals, MaxSmallRows)}

OddContents ==
    {<<>>, <<Preamble, Preamble>>,
     <<Preamble, Preamble, <<<<"t">>, <<"s">>, <<"u">>>>>>,
     Table(<< <<FormatTime(0, "mmss"), <<"-", "2">>>> >>)}

CsvPath == <<"a", ".", "c", "s", "v">>

Paths == {CsvPath, <<"a", ".", "x", "l", "s", "x">>, <<"a", ".", "t", "x", "t">>}

SignalRaws == {<<" ", "E", "C", "G", " ">>, <<"e", "e", "g">>, <<"e", "m", "g">>}

SaveRaws == {<<"Y", " ">>, <<"n">>}

MainInputs ==
    [exists : BOOLEAN, file_path : Paths, content : OddContents,
     signal_raw : {Ecg}, save_raw : {<<"y">>}]
    \cup
    [exists : {TRUE}, file_path : {CsvPath}, content : SmallTables,
     signal_raw : {Ecg}, save_raw : {<<"y">>}]
    \cup
    [exists : {TRUE}, file_path : {CsvPath}, content : Recordings,
     signal_raw : SignalRaws, save_raw : SaveRaws]

Samples(n) == [i \in 1..n |-> [nan |-> FALSE, neg |-> FALSE, milli |-> 1000 * i]]

\* the padlen of the default order
DefaultPadlen == 3 * (2 * DefaultOrder + 1)

FilterInputs ==
    [data : {Samples(n) : n \in {0, DefaultPadlen, DefaultPadlen + 1}},
     fs : (-2)..MaxFs,
     signal_type : {Ecg, Eeg, <<"E", "C", "G">>, <<"e", "m", "g">>},
     order : {1, MaxOrder}]

Blank ==
    /\ signal_type = Nothing
    /\ df = Nothing
    /\ fs = Nothing
    /\ coeffs = Nothing
    /\ filtered = Nothing
    /\ figure = Nothing
    /\ printed = <<>>
    /\ saved = Nothing
    /\ err = None

Init ==
    /\ pc = "Start"
    /\ input \in MainInputs
    /\ Blank

Next ==
    \/ ReadInputs
    \/ Load
    \/ Estimate
    \/ DesignFilter
    \/ ApplyFilter
    \/ Plot
    \/ Save

Spec == Init /\ [][Next]_vars

InitFilter ==
    /\ pc = "Call"
    /\ input \in FilterInputs
    /\ Blank

NextFilter == CallFilterSignal

SpecFilter == InitFilter /\ [][NextFilter]_vars

\* ------------------------------------------------------------------------
\* Properties of filter_signal, for SpecFilter.

\* the bands of lines 72-79, in Hz
PresetHighcutHz(st) == IF st = Ecg THEN 45 ELSE 30

Called == pc # "Call"

\* C1: for ecg and eeg, a call with fs < 2 * highcut (fs = 0 and fs < 0
\* with them) ends with the invalid-filter-range error, without
\* coefficients and without output.
C1_BelowNyquistIsInvalidRange ==
    (/\ Called
     /\ input.signal_type \in {Ecg, Eeg}
     /\ input.fs < 2 * PresetHighcutHz(input.signal_type))
    => (pc = "Raised" /\ err = ErrFilterRange /\ coeffs = Nothing /\ filtered = Nothing)

\* C3: a call with a signal type other than 'ecg' and 'eeg' ends with the
\* unsupported-signal-type error, whatever fs and data are, and with no
\* coefficients and no output.
C3_UnsupportedTypeIsRejected ==
    (Called /\ input.signal_type \notin {Ecg, Eeg})
    => (pc = "Raised" /\ err = ErrSignalType /\ coeffs = Nothing /\ filtered = Nothing)

\* C3: a call with 'ECG' (not a preset as written), fs = 0 and no data has
\* ended with the unsupported-signal-type error.
C3_Witness ==
    /\ pc = "Raised"
    /\ err = ErrSignalType
    /\ input.signal_type = <<"E", "C", "G">>
    /\ input.fs = 0
    /\ input.data = <<>>

\* fs / 2
HalfOf(n) == FDivFinite(FFromInt(n), FFromInt(2))

\* C8: coefficients are designed only from band edges low = lowcut/(fs/2)
\* and high = highcut/(fs/2) with 0 < low < high < 1, for every signal type,
\* fs and order; and 'ecg' at fs = 100 gets its coefficients.
C8_BandEdgesAtButter ==
    /\ coeffs # Nothing =>
          /\ input.signal_type \in {Ecg, Eeg}
          /\ input.fs > 2 * PresetHighcutHz(input.signal_type)
          /\ coeffs[1].low = FDivFinite(Lowcut(input.signal_type), HalfOf(input.fs))
          /\ coeffs[1].high = FDivFinite(Highcut(input.signal_type), HalfOf(input.fs))
          /\ FLess(FZero, coeffs[1].low)
          /\ FLess(coeffs[1].low, coeffs[1].high)
          /\ FLess(coeffs[1].high, FOne)
          /\ coeffs[1].order = input.order
    /\ (Called /\ input.signal_type = Ecg /\ input.fs = 100) => coeffs # Nothing

\* C8: 'ecg' at fs = 100 and order 1 has been designed, with the edges
\* 0.5/50 and 45/50, and filtered.
C8_Witness ==
    /\ pc = "Returned"
    /\ input.signal_type = Ecg
    /\ input.fs = 100
    /\ input.order = 1
    /\ coeffs # Nothing
    /\ coeffs[1].low = FDivFinite(FOne, FFromInt(100))
    /\ coeffs[1].high = FDivFinite(FFromInt(9), FFromInt(10))

\* ------------------------------------------------------------------------
\* Properties of main, for Spec.

\* the rows of the file read, below the column names
FileRows == SubSeq(input.content, 4, Len(input.content))

\* the times of a frame in milliseconds, as written in the file
Millis(frame) == [i \in 1..Len(frame) |-> ToTimedelta(frame[i].Time).ms]

\* a time every d milliseconds
EvenlySpaced(t, d) == \A i \in 1..(Len(t) - 1) : t[i + 1] - t[i] = d

StrictlyIncreasing(t) == \A i \in 1..(Len(t) - 1) : FLess(t[i], t[i + 1])

\* n / d rounded to the nearest integer, ties to even, for n >= 0 and d > 0
RoundRatio(n, d) ==
    IF 2 * (n % d) > d \/ (2 * (n % d) = d /\ (n \div d) % 2 = 1)
    THEN n \div d + 1
    ELSE n \div d

Estimated == df # Nothing /\ pc \notin {"Start", "Ready", "Loaded", "Returned"}

\* the spacing of the first two times of t, in milliseconds
Spacing(t) == t[2] - t[1]

\* C2: for timestamps D apart (at least 2, D > 0), the estimate is
\* round(1/D), whatever the first timestamp is.
C2_EstimateIsRoundOfSpacing ==
    (/\ pc = "RateEstimated"
     /\ Len(df[1]) >= 2
     /\ Spacing(Millis(df[1])) > 0
     /\ EvenlySpaced(Millis(df[1]), Spacing(Millis(df[1]))))
    => fs[1] = RoundRatio(1000, Spacing(Millis(df[1])))

\* the error the estimation is to raise for fewer than 2 timestamps
InsufficientDataError == "InsufficientDataError"

\* C4: with fewer than 2 rows loaded, the estimation ends with the
\* insufficient-data error, and gives no fs and no filter.
C4_TooFewTimestampsIsItsOwnError ==
    (Estimated /\ Len(df[1]) < 2)
    => (pc = "Raised" /\ err = InsufficientDataError /\ fs = Nothing /\ coeffs = Nothing)

\* the error the estimation is to raise for timestamps that do not advance
DegenerateTimingError == "DegenerateTimingError"

NotPositive(x) == x.k # "nan" /\ (FIsZero(x) \/ x.neg)

\* C5: with at least 2 rows whose mean successive difference is 0 or below,
\* the estimation ends with the degenerate-timing error; no fs comes of it
\* and none reaches filter_signal.
C5_DegenerateTimingIsRejected ==
    (/\ Estimated
     /\ Len(df[1]) >= 2
     /\ NotPositive(Mean(Diff(TimeColumn(df[1])))))
    => (pc = "Raised" /\ err = DegenerateTimingError /\ fs = Nothing /\ coeffs = Nothing)

\* C7: for at least 2 strictly increasing timestamps the estimate is an
\* integer of 1 or more.
C7_EstimateIsPositive ==
    (Estimated /\ Len(df[1]) >= 2 /\ StrictlyIncreasing(TimeColumn(df[1])))
    => (fs # Nothing /\ fs[1] >= 1)

\* the exception of the stage that follows a position of main
StageError(at) ==
    IF at = "Ready" THEN LoadData(input.file_path, input.content).err
    ELSE IF at = "Loaded" THEN EstimateFs(df[1]).err
    ELSE IF at = "RateEstimated" THEN Design(fs[1], signal_type[1], DefaultOrder).err
    ELSE IF at = "FilterDesigned" THEN FiltFilt(coeffs[1], SignalColumn(df[1])).err
    ELSE IF at = "Applied" THEN ErrPlotShape
    ELSE IF at = "Plotted" THEN ErrColumnLength
    ELSE None

\* a stage passed: the next one in the order, and no exception
Advance ==
    /\ \/ pc = "Start" /\ pc' = "Ready" /\ input.exists
       \/ pc = "Start" /\ pc' = "Returned" /\ ~input.exists
       \/ pc = "Ready" /\ pc' = "Loaded"
       \/ pc = "Loaded" /\ pc' = "RateEstimated"
       \/ pc = "RateEstimated" /\ pc' = "FilterDesigned"
       \/ pc = "FilterDesigned" /\ pc' = "Applied"
       \/ pc = "Applied" /\ pc' = "Plotted"
       \/ pc = "Plotted" /\ pc' = "Done"
    /\ err' = None

\* a stage failed: its exception leaves main as it is, nothing is printed
\* for it, and nothing of a later stage is made
Abort ==
    /\ pc \in {"Ready", "Loaded", "RateEstimated", "FilterDesigned",
               "Applied", "Plotted"}
    /\ pc' = "Raised"
    /\ err' # None
    /\ err' = StageError(pc)
    /\ printed' = printed
    /\ UNCHANGED <<df, fs, coeffs, filtered, figure, saved>>
    /\ pc # "Plotted" => figure = Nothing
    /\ saved = Nothing

FilterDone == pc \in {"Applied", "Plotted", "Done"}

\* C9: once the signal is filtered, there is one filtered value for each
\* row loaded, the i-th for the i-th row; the plot has as many of one as of
\* the other, and the file saved holds each row with its own filtered value.
C9_FilteredAlignsWithLoaded ==
    /\ FilterDone =>
          /\ Len(filtered[1]) = Len(df[1])
          /\ \A i \in 1..Len(df[1]) : filtered[1][i] = <<"y", i>>
    /\ figure # Nothing =>
          /\ figure[1].original = Len(df[1])
          /\ figure[1].filtered = Len(df[1])
    /\ saved # Nothing =>
          /\ Len(saved[1]) = Len(df[1])
          /\ \A i \in 1..Len(df[1]) :
                /\ saved[1][i].Signal = df[1][i].Signal
                /\ saved[1][i].Time_sec = df[1][i].Time_sec
                /\ saved[1][i].Filtered_Signal = filtered[1][i]

\* C9: a recording that lost a row in loading (the labels no longer count
\* the rows) has been filtered, plotted and saved.
C9_Witness ==
    /\ pc = "Done"
    /\ saved # Nothing
    /\ Len(df[1]) < Len(FileRows)
    /\ Len(saved[1]) = Len(df[1])
    /\ Len(df[1]) > DefaultPadlen

\* a number as the tables write it: [-]digits[.digits]
IsNumberText(cell) ==
    /\ cell # <<>>
    /\ \A i \in 1..Len(cell) : IsDigit(cell[i]) \/ cell[i] = "." \/ (i = 1 /\ cell[i] = "-")
    /\ Count(cell, ".") <= 1
    /\ IsDigit(cell[Len(cell)])
    /\ \E i \in 1..2 : i <= Len(cell) /\ IsDigit(cell[i]) /\ (i = 2 => cell[1] = "-")

\* C10: the frame load_data returns holds the rows of the file whose Signal
\* is a number, all of them and no other, in the file's order, each with
\* its own Time and Time_sec.
C10_LoadKeepsNumericRows ==
    pc = "Loaded" =>
       /\ \A k \in 1..Len(df[1]) :
             /\ df[1][k].idx + 1 \in 1..Len(FileRows)
             /\ IsNumberText(FileRows[df[1][k].idx + 1][2])
             /\ ~df[1][k].Signal.nan
             /\ df[1][k].Signal = ToNumeric(FileRows[df[1][k].idx + 1][2])
             /\ df[1][k].Time = WithHours(Unquote(AsStr(FileRows[df[1][k].idx + 1][1])))
             /\ df[1][k].Time_sec = TotalSeconds(ToTimedelta(df[1][k].Time))
       /\ \A k \in 1..(Len(df[1]) - 1) : df[1][k].idx < df[1][k + 1].idx
       /\ \A i \in 1..Len(FileRows) :
             IsNumberText(FileRows[i][2]) => \E k \in 1..Len(df[1]) : df[1][k].idx = i - 1

\* C10: a file of at least three rows was loaded, and its second row, which
\* held no number, is gone while the rows around it are kept.
C10_Witness ==
    /\ pc = "Loaded"
    /\ Len(FileRows) >= 3
    /\ ~IsNumberText(FileRows[2][2])
    /\ Len(df[1]) = Len(FileRows) - 1
    /\ df[1][1].idx = 0
    /\ df[1][2].idx = 2

=============================================================================
